---- MODULE Spec2Model ----
(***************************************************************************)
(* A model of Correlation_Penalized_MLP/mlp.py: the training driver        *)
(* test_mlp (configuration check, cost assembly, the epoch / minibatch /   *)
(* validation loop, the best-model record) and the decorrelation penalties *)
(* MLP.set_covariance and MLP.set_correlation.                             *)
(*                                                                         *)
(* Numbers.  Reals are modelled exactly: a parameter is an integer or NaN, *)
(* a validation error is a fraction num/den, +inf or NaN, and an entry of  *)
(* the correlation matrix is sgn * sqrt(num/den).  Floating-point rounding *)
(* is not modelled.                                                        *)
(***************************************************************************)
EXTENDS Integers, Sequences, FiniteSets, TLC

\* ------------------------------------------------------------- bounds
MaxEpochs == 2
MaxBatch == 2
MaxTrain == 3
MaxValid == 2
MaxRows == 3
MaxHidden == 3
MaxAct == 0

\* ------------------------------------------------------------ variables
VARIABLES
    pc,                   \* position of test_mlp
    cov_reg, cor_reg, L1_reg, L2_reg, learning_rate, n_epochs, batch_size,
    n_train, n_valid,     \* train_set_x.shape[0], valid_set_x.shape[0]
    n_train_batches, n_valid_batches,
    attrs,                \* penalty attributes set on the classifier
    cost,                 \* the symbolic cost: a sequence of <<weight, term>>
    params,               \* classifier.params: W_hidden, b_hidden, W_out, b_out
    epoch, index_perm, minibatch_index,
    validation_losses, this_validation_loss,
    best_validation_loss, best_epoch,
    exit_status, error, summary,
    \* history (not program state)
    losses,               \* this_validation_loss of every completed epoch
    used,                 \* the train_model calls of the current epoch
    validated,            \* the validate_model calls of the current epoch
    updates,              \* number of train_model calls so far
    last_grad,            \* the gradients of the last train_model call
    \* the penalty computations on one minibatch of hidden activations
    pen_pc, hidden_output, minibatch_size, mean_activation,
    centered_activation, activation_covariance, covariance_squared,
    off_diag_cov_sqr, inv_std_vec, activation_correlation,
    correlation_squared, off_diag_cor_sqr

cfgvars == <<cov_reg, cor_reg, L1_reg, L2_reg, learning_rate, n_epochs,
             batch_size, n_train, n_valid>>
loopvars == <<epoch, index_perm, minibatch_index, validation_losses,
              this_validation_loss, best_validation_loss, best_epoch>>
histvars == <<losses, used, validated, updates, last_grad>>
penvars == <<pen_pc, hidden_output, minibatch_size, mean_activation,
             centered_activation, activation_covariance, covariance_squared,
             off_diag_cov_sqr, inv_std_vec, activation_correlation,
             correlation_squared, off_diag_cor_sqr>>
runvars == <<pc, n_train_batches, n_valid_batches, attrs, cost, params,
             exit_status, error, summary>>
vars == <<cfgvars, runvars, loopvars, histvars, penvars>>

\* ------------------------------------------------------------- numbers
Sgn(x) == IF x > 0 THEN 1 ELSE IF x < 0 THEN 0 - 1 ELSE 0
Abs(x) == IF x < 0 THEN 0 - x ELSE x
Min2(a, b) == IF a < b THEN a ELSE b

RECURSIVE Gcd(_, _)
Gcd(a, b) == IF b = 0 THEN a ELSE Gcd(b, a % b)

RECURSIVE SumSeq(_)
SumSeq(s) == IF s = <<>> THEN 0 ELSE s[1] + SumSeq(Tail(s))

\* a faulty variant of PyFloorDiv that rounds up (a partial last batch would
\* then be counted); C8 is tested against it
PyCeilDiv(a, b) ==
    IF b > 0 THEN (a + b - 1) \div b
    ELSE 0 - (a \div (0 - b))

\* Python 2 integer division a / b for b # 0: the floor of the quotient
PyFloorDiv(a, b) ==
    IF b > 0 THEN a \div b
    ELSE 0 - ((a + (0 - b) - 1) \div (0 - b))

\* Python slice s[lo:hi] of a sequence, for 0 <= lo <= hi (0-based, clipped)
Slice(s, lo, hi) ==
    LET l == Min2(lo, Len(s))
        h == Min2(hi, Len(s))
    IN  [k \in 1..(h - l) |-> s[l + k]]

\* a float that is a number, +inf or NaN
Num(n, d) == [kind |-> "num", num |-> n, den |-> d]
Inf == [kind |-> "inf", num |-> 0, den |-> 1]
NegInf == [kind |-> "ninf", num |-> 0, den |-> 1]
NaN == [kind |-> "nan", num |-> 0, den |-> 1]

\* IEEE a < b: false whenever an operand is NaN
Lt(a, b) ==
    CASE a.kind = "nan" \/ b.kind = "nan" -> FALSE
      [] a.kind = "inf" \/ b.kind = "ninf" -> FALSE
      [] a.kind = "ninf" \/ b.kind = "inf" -> TRUE
      [] OTHER -> a.num * b.den < b.num * a.den

\* two floats are equal numbers
SameNumber(a, b) ==
    /\ a.kind = "num"
    /\ b.kind = "num"
    /\ a.num * b.den = b.num * a.den
IsNumber(a) == a.kind = "num"

\* np.mean of the per-batch error fractions e/batch_size; NaN for an empty list
Mean(errs, bs) ==
    IF errs = <<>> THEN NaN ELSE Num(SumSeq(errs), Len(errs) * bs)

\* ---------------------------------------------------------- parameters
\* a parameter value: an integer (fixed-point) or NaN
V(x) == [nan |-> FALSE, v |-> x]
VNaN == [nan |-> TRUE, v |-> 0]
VSub(a, b) == IF a.nan \/ b.nan THEN VNaN ELSE V(a.v - b.v)
VScale(k, a) == IF a.nan THEN VNaN ELSE V(k * a.v)

ParamIds == 1..4
AnyNaN(P) == \E i \in ParamIds : P[i].nan

\* the data set: example i has label i % 2 and the feature 2*label - 1
Label(i) == i % 2
Feature(i) == 2 * Label(i) - 1

\* HiddenLayer: W uniform at random (non-zero), b zero; LogisticRegression: zeros
InitParams == { <<V(w), V(0), V(0), V(0)>> : w \in {1} }

\* the hidden activation of example i (a linear unit stands for tanh)
Hidden(P, i) == P[1].v * Feature(i) + P[2].v
\* the predicted class of example i
Predict(P, i) == IF P[3].v * Hidden(P, i) + P[4].v > 0 THEN 1 ELSE 0
Delta(P, i) == Predict(P, i) - Label(i)

\* d negative_log_likelihood / d param i over the minibatch xs, a sequence of
\* examples (summed over the batch; the chain rule through the two layers)
GradNll(i, P, xs) ==
    IF AnyNaN(P) THEN VNaN
    ELSE V(SumSeq([k \in 1..Len(xs) |->
            CASE i = 1 -> Delta(P, xs[k]) * P[3].v * Feature(xs[k])
              [] i = 2 -> Delta(P, xs[k]) * P[3].v
              [] i = 3 -> Delta(P, xs[k]) * Hidden(P, xs[k])
              [] OTHER -> Delta(P, xs[k]) ]))

\* d L1 / d param i: L1 sums |W| over the two weight matrices
GradL1(i, P) ==
    IF i \in {1, 3} THEN (IF P[i].nan THEN VNaN ELSE V(Sgn(P[i].v))) ELSE V(0)

\* d L2_sqr / d param i: L2_sqr sums W ** 2 over the two weight matrices
GradL2(i, P) == IF i \in {1, 3} THEN VScale(2, P[i]) ELSE V(0)

\* whether the hidden unit has zero sample variance over the minibatch
ZeroVariance(P, xs) ==
    \A j, k \in 1..Len(xs) : Hidden(P, xs[j]) = Hidden(P, xs[k])

\* d off_diag_cov_sqr / d param i.  With one hidden unit the covariance matrix
\* has no off-diagonal entry: the penalty is sum - diagonal = 0 and so is its
\* gradient, unless 1.0/(minibatch_size-1) is inf, which makes both NaN.  The
\* penalty reads hiddenLayer.output only: no gradient to the output layer.
GradCov(i, P, xs) ==
    IF i \in {3, 4} THEN V(0)
    ELSE IF AnyNaN(P) \/ Len(xs) = 1 THEN VNaN ELSE V(0)

\* d off_diag_cor_sqr / d param i: as GradCov, and NaN too when the unit has
\* zero variance in the minibatch (inv_std_vec is inf)
GradCor(i, P, xs) ==
    IF i \in {3, 4} THEN V(0)
    ELSE IF AnyNaN(P) \/ Len(xs) = 1 \/ ZeroVariance(P, xs) THEN VNaN ELSE V(0)

GradTerm(term, i, P, xs) ==
    CASE term = "negative_log_likelihood" -> GradNll(i, P, xs)
      [] term = "L1" -> GradL1(i, P)
      [] term = "L2_sqr" -> GradL2(i, P)
      [] term = "off_diag_cov_sqr" -> GradCov(i, P, xs)
      [] OTHER -> GradCor(i, P, xs)

\* gparams[i] = T.grad(cost, param i), evaluated at P on the minibatch xs
Gparam(c, i, P, xs) ==
    IF \E t \in 1..Len(c) : GradTerm(c[t][2], i, P, xs).nan THEN VNaN
    ELSE V(SumSeq([t \in 1..Len(c) |-> c[t][1] * GradTerm(c[t][2], i, P, xs).v]))

\* a faulty variant of TrainModelUpdates that updates the parameters one after
\* the other, each gradient taken at the values already updated; C10 is tested
\* against it
RECURSIVE UpdateInPlace(_, _, _, _, _)
UpdateInPlace(c, P, lr, xs, i) ==
    IF i > 4 THEN P
    ELSE UpdateInPlace(c,
            [P EXCEPT ![i] = VSub(P[i], VScale(lr, Gparam(c, i, P, xs)))],
            lr, xs, i + 1)
TrainModelUpdatesInPlace(c, P, lr, xs) == UpdateInPlace(c, P, lr, xs, 1)

\* updates = [(param, param - learning_rate * gparam)]: Theano evaluates every
\* update expression on the parameter values before the call, then assigns all
TrainModelUpdates(c, P, lr, xs) ==
    [i \in ParamIds |-> VSub(P[i], VScale(lr, Gparam(c, i, P, xs)))]

\* rng.permutation(n): the shuffles of 0..n-1
Shuffles ==
    [n \in 0..MaxTrain |->
        { p \in [1..n -> 0..(n - 1)] : \A i, j \in 1..n : p[i] = p[j] => i = j }]
\* a faulty variant of RngPermutation that draws the n indices with
\* replacement; C4 is tested against it
RngChoice(n) == [1..n -> 0..(n - 1)]

RngPermutation(n) == Shuffles[n]

\* the data set in its stored order
Range0(n) == [k \in 1..n |-> k - 1]

\* --------------------------------------------------------------- inputs
Weights == {0, 1}
EpochCounts == (0 - 1)..MaxEpochs
BatchSizes == (0 - 1)..MaxBatch
TrainSizes == 0..MaxTrain
ValidSizes == 0..MaxValid

PenaltyIdle ==
    /\ pen_pc = "off"
    /\ hidden_output = <<>>
    /\ minibatch_size = 0
    /\ mean_activation = <<>>
    /\ centered_activation = <<>>
    /\ activation_covariance = <<>>
    /\ covariance_squared = <<>>
    /\ off_diag_cov_sqr = NaN
    /\ inv_std_vec = <<>>
    /\ activation_correlation = <<>>
    /\ correlation_squared = <<>>
    /\ off_diag_cor_sqr = NaN

\* the call test_mlp(...): the arguments and the data set are the inputs
Init ==
    /\ pc = "start"
    /\ cov_reg \in Weights
    /\ cor_reg \in Weights
    /\ L1_reg = 0
    /\ L2_reg = 1
    /\ learning_rate = 1
    /\ n_epochs \in EpochCounts
    /\ batch_size \in BatchSizes
    /\ n_train \in TrainSizes
    /\ n_valid \in ValidSizes
    /\ n_train_batches = 0
    /\ n_valid_batches = 0
    /\ attrs = {}
    /\ cost = <<>>
    /\ params = <<>>
    /\ epoch = 0
    /\ index_perm = <<>>
    /\ minibatch_index = 0
    /\ validation_losses = <<>>
    /\ this_validation_loss = NaN
    /\ best_validation_loss = NaN
    /\ best_epoch = 0
    /\ exit_status = <<>>
    /\ error = ""
    /\ summary = <<>>
    /\ losses = <<>>
    /\ used = <<>>
    /\ validated = <<>>
    /\ updates = 0
    /\ last_grad = <<>>
    /\ PenaltyIdle

\* -------------------------------------------------------------- test_mlp
\* load_data and the batch counts; batch_size = 0 raises ZeroDivisionError,
\* which ends the interpreter with status 1
LoadData ==
    /\ pc = "start"
    /\ IF batch_size = 0
       THEN /\ pc' = "aborted"
            /\ exit_status' = <<1>>
            /\ error' = "ZeroDivisionError"
            /\ UNCHANGED <<n_train_batches, n_valid_batches>>
       ELSE /\ pc' = "loaded"
            /\ n_train_batches' = PyFloorDiv(n_train, batch_size)
            /\ n_valid_batches' = PyFloorDiv(n_valid, batch_size)
            /\ UNCHANGED <<exit_status, error>>
    /\ UNCHANGED <<cfgvars, attrs, cost, params, summary, loopvars, histvars, penvars>>

\* classifier = MLP(...): the two layers and their parameters
BuildModel ==
    /\ pc = "loaded"
    /\ pc' = "built"
    /\ params' \in InitParams
    /\ UNCHANGED <<cfgvars, n_train_batches, n_valid_batches, attrs, cost,
                   exit_status, error, summary, loopvars, histvars, penvars>>

\* a faulty variant of RegularizationMode that looks at cov_reg first and has
\* no else branch; C1 is tested against it
RegularizationModeCovFirst(cov, cor) ==
    IF cov # 0 THEN "covariance"
    ELSE IF cor # 0 THEN "correlation" ELSE "none"

\* the branch the if / elif / elif / else over cov_reg and cor_reg takes
RegularizationMode(cov, cor) ==
    IF cov = 0 /\ cor = 0 THEN "none"
    ELSE IF cov # 0 /\ cor = 0 THEN "covariance"
    ELSE IF cov = 0 /\ cor # 0 THEN "correlation"
    ELSE "invalid"

BaseCost ==
    << <<1, "negative_log_likelihood">>, <<L1_reg, "L1">>, <<L2_reg, "L2_sqr">> >>

\* a faulty variant of CostOf that adds both penalty terms in either penalty
\* mode; C2 is tested against it
CostOfBothPenalties(mode) ==
    IF mode = "none" THEN BaseCost
    ELSE BaseCost \o << <<cov_reg, "off_diag_cov_sqr">>,
                        <<cor_reg, "off_diag_cor_sqr">> >>

\* the cost each branch assembles
CostOf(mode) ==
    CASE mode = "none" -> BaseCost
      [] mode = "covariance" -> Append(BaseCost, <<cov_reg, "off_diag_cov_sqr">>)
      [] OTHER -> Append(BaseCost, <<cor_reg, "off_diag_cor_sqr">>)

\* the attribute classifier.set_covariance() or set_correlation() sets
PenaltyAttrs(mode) ==
    CASE mode = "none" -> {}
      [] mode = "covariance" -> {"off_diag_cov_sqr"}
      [] OTHER -> {"off_diag_cor_sqr"}

\* the cost is assembled, or the program prints 'Cannot use covariance and
\* correlation penalties simulataneously' and calls sys.exit(1)
AssembleCost ==
    /\ pc = "built"
    /\ LET mode == RegularizationMode(cov_reg, cor_reg)
       IN  IF mode = "invalid"
           THEN /\ pc' = "aborted"
                /\ exit_status' = <<1>>
                /\ error' = "SystemExit"
                /\ UNCHANGED <<attrs, cost>>
           ELSE /\ attrs' = attrs \cup PenaltyAttrs(mode)
                /\ cost' = CostOf(mode)
                /\ pc' = "cost"
                /\ UNCHANGED <<exit_status, error>>
    /\ UNCHANGED <<cfgvars, n_train_batches, n_valid_batches, params, summary,
                   loopvars, histvars, penvars>>

\* validate_model, gparams, updates and train_model are compiled, then
\* best_validation_loss = np.inf; best_epoch = 0; epoch = 0
StartTraining ==
    /\ pc = "cost"
    /\ pc' = "loop"
    /\ best_validation_loss' = Inf
    /\ best_epoch' = 0
    /\ epoch' = 0
    /\ UNCHANGED <<cfgvars, n_train_batches, n_valid_batches, attrs, cost, params,
                   exit_status, error, summary, index_perm, minibatch_index,
                   validation_losses, this_validation_loss, histvars, penvars>>

\* where the epoch goes on after minibatch mi: the for loop, then the validation
AfterTrain(mi) == IF mi < n_train_batches THEN "train" ELSE "validate"

\* a faulty variant of LoopContinues that stops at the first epoch without an
\* improvement; C9 is tested against it
LoopContinuesWhileImproving == epoch < n_epochs /\ best_epoch = epoch

\* the loop condition: while epoch < n_epochs
LoopContinues == epoch < n_epochs

\* epoch += 1; index_perm = rng.permutation(n_train)
EpochStart ==
    /\ pc = "loop"
    /\ LoopContinues
    /\ epoch' = epoch + 1
    /\ index_perm' \in RngPermutation(n_train)
    /\ minibatch_index' = 0
    /\ validation_losses' = <<>>
    /\ used' = <<>>
    /\ validated' = <<>>
    /\ pc' = AfterTrain(0)
    /\ UNCHANGED <<cfgvars, n_train_batches, n_valid_batches, attrs, cost, params,
                   exit_status, error, summary, this_validation_loss,
                   best_validation_loss, best_epoch, losses, updates, last_grad,
                   penvars>>

\* the examples train_model(index, perm) is given
TrainBatch(index, perm) ==
    Slice(perm, index * batch_size, (index + 1) * batch_size)

\* minibatch_avg_cost = train_model(minibatch_index, index_perm)
TrainStep ==
    /\ pc = "train"
    /\ minibatch_index < n_train_batches
    /\ \E xs \in {TrainBatch(minibatch_index, index_perm)} :
           /\ params' = TrainModelUpdates(cost, params, learning_rate, xs)
           /\ last_grad' = [i \in ParamIds |-> Gparam(cost, i, params, xs)]
           /\ used' = Append(used, [index |-> minibatch_index,
                                    perm |-> index_perm, examples |-> xs])
    /\ updates' = updates + 1
    /\ minibatch_index' = minibatch_index + 1
    /\ pc' = AfterTrain(minibatch_index + 1)
    /\ UNCHANGED <<cfgvars, n_train_batches, n_valid_batches, attrs, cost,
                   exit_status, error, summary, epoch, index_perm,
                   validation_losses, this_validation_loss, best_validation_loss,
                   best_epoch, losses, validated, penvars>>

\* the examples validate_model(index) is given
ValidBatch(index) ==
    Slice(Range0(n_valid), index * batch_size, (index + 1) * batch_size)

\* the outcomes of the list comprehension [validate_model(i) for i in
\* xrange(n_valid_batches)]: for each batch, in the order of i, the number of
\* its examples the classifier gets wrong is whatever the model makes of the
\* data (the list holds these numbers over batch_size)
ValidationOutcomes ==
    { errs \in [1..(IF n_valid_batches > 0 THEN n_valid_batches ELSE 0)
                  -> 0..(IF batch_size > 0 THEN batch_size ELSE 0)] :
        \A i \in DOMAIN errs : errs[i] <= Len(ValidBatch(i - 1)) }

\* validation_losses = [validate_model(i) ...];
\* this_validation_loss = np.mean(validation_losses)
Validate ==
    /\ pc = "validate"
    /\ validation_losses' \in ValidationOutcomes
    /\ validated' = [i \in DOMAIN validation_losses' |->
                        [index |-> i - 1, examples |-> ValidBatch(i - 1)]]
    /\ this_validation_loss' = Mean(validation_losses', batch_size)
    /\ pc' = "compare"
    /\ UNCHANGED <<cfgvars, n_train_batches, n_valid_batches, attrs, cost, params,
                   exit_status, error, summary, epoch, index_perm, minibatch_index,
                   best_validation_loss, best_epoch,
                   losses, used, updates, last_grad, penvars>>

\* two faulty variants of IsImprovement: one takes a tie for an improvement
\* (C7 is tested against it), the other compares the wrong way round (C3)
IsImprovementOrTie(this, best) == Lt(this, best) \/ SameNumber(this, best)
IsImprovementReversed(this, best) == Lt(best, this)

\* if this_validation_loss < best_validation_loss
IsImprovement(this, best) == Lt(this, best)

\* the epoch's report and the best-model record
EndEpoch ==
    /\ pc = "compare"
    /\ losses' = Append(losses, this_validation_loss)
    /\ IF IsImprovement(this_validation_loss, best_validation_loss)
       THEN /\ best_validation_loss' = this_validation_loss
            /\ best_epoch' = epoch
       ELSE UNCHANGED <<best_validation_loss, best_epoch>>
    /\ pc' = "loop"
    /\ UNCHANGED <<cfgvars, n_train_batches, n_valid_batches, attrs, cost, params,
                   exit_status, error, summary, epoch, index_perm, minibatch_index,
                   validation_losses, this_validation_loss, used, validated,
                   updates, last_grad, penvars>>

\* the loop is left and 'Optimization complete. Best validation score ...'
\* is printed
Finish ==
    /\ pc = "loop"
    /\ ~LoopContinues
    /\ summary' = << [best |-> best_validation_loss, epoch |-> best_epoch] >>
    /\ exit_status' = <<0>>
    /\ pc' = "done"
    /\ UNCHANGED <<cfgvars, n_train_batches, n_valid_batches, attrs, cost, params,
                   error, loopvars, histvars, penvars>>

Next ==
    \/ LoadData
    \/ BuildModel
    \/ AssembleCost
    \/ StartTraining
    \/ EpochStart
    \/ TrainStep
    \/ Validate
    \/ EndEpoch
    \/ Finish

Spec == Init /\ [][Next]_vars

\* the interpreter runs one statement after the other: a step that can be
\* taken is taken
FairSpec == Spec /\ WF_vars(Next)

\* ------------------------------------------------- the penalties (MLP)
\* the fraction n/d in lowest terms, d > 0
Rat(n, d) ==
    LET g == Gcd(Abs(n), Abs(d))
    IN  Num(Sgn(d) * (n \div g), Abs(d) \div g)

FSign(a) ==
    CASE a.kind = "inf" -> 1
      [] a.kind = "ninf" -> 0 - 1
      [] OTHER -> Sgn(a.num)

\* IEEE product: inf * 0 is NaN
FMul(a, b) ==
    CASE a.kind = "nan" \/ b.kind = "nan" -> NaN
      [] a.kind # "num" \/ b.kind # "num" ->
            IF FSign(a) * FSign(b) = 0 THEN NaN
            ELSE IF FSign(a) * FSign(b) > 0 THEN Inf ELSE NegInf
      [] OTHER ->
            LET g1 == Gcd(Abs(a.num), b.den)
                g2 == Gcd(Abs(b.num), a.den)
            IN  Rat((a.num \div g1) * (b.num \div g2),
                    (a.den \div g2) * (b.den \div g1))

\* IEEE sum: inf + -inf is NaN
FAdd(a, b) ==
    CASE a.kind = "nan" \/ b.kind = "nan" -> NaN
      [] a.kind # "num" /\ b.kind # "num" -> IF a.kind = b.kind THEN a ELSE NaN
      [] a.kind # "num" -> a
      [] b.kind # "num" -> b
      [] OTHER ->
            LET g == Gcd(a.den, b.den)
            IN  Rat(a.num * (b.den \div g) + b.num * (a.den \div g),
                    a.den * (b.den \div g))

FNeg(a) ==
    CASE a.kind = "inf" -> NegInf
      [] a.kind = "ninf" -> Inf
      [] a.kind = "nan" -> NaN
      [] OTHER -> Num(0 - a.num, a.den)

FSub(a, b) == FAdd(a, FNeg(b))

RECURSIVE FSum(_)
FSum(s) == IF s = <<>> THEN Num(0, 1) ELSE FAdd(s[1], FSum(Tail(s)))

\* a real whose square is a fraction: sgn * sqrt(sq), sq a fraction, inf or NaN
Surd(s, q) == [sgn |-> s, sq |-> q]
SurdNaN == Surd(0, NaN)
ToSurd(a) == IF a.kind = "nan" THEN SurdNaN ELSE Surd(FSign(a), FMul(a, a))

\* a ** (-0.5): 0 gives inf, a negative number NaN
InvSqrt(a) ==
    CASE a.kind = "nan" \/ a.kind = "ninf" -> SurdNaN
      [] a.kind = "inf" -> Surd(0, Num(0, 1))
      [] a.num = 0 -> Surd(1, Inf)
      [] a.num < 0 -> SurdNaN
      [] OTHER -> Surd(1, Num(a.den, a.num))

SurdMul(a, b) ==
    LET q == FMul(a.sq, b.sq)
    IN  IF q.kind = "nan" THEN SurdNaN ELSE Surd(a.sgn * b.sgn, q)

\* x ** 2
SurdSquare(a) == a.sq

Rows(H) == Len(H)
Cols(H) == Len(H[1])

\* 1.0 / (self.minibatch_size - 1)
InvBatchMinusOne(n) == IF n = 1 THEN Inf ELSE Num(1, n - 1)

\* output.mean(0)
MeanActivation(H) ==
    [j \in 1..Cols(H) |-> Rat(SumSeq([r \in 1..Rows(H) |-> H[r][j]]), Rows(H))]

\* output - mean_activation, the mean cast over the rows
CenteredActivation(H, mean) ==
    [r \in 1..Rows(H) |-> [j \in 1..Cols(H) |-> FSub(Num(H[r][j], 1), mean[j])]]

\* 1.0/(minibatch_size-1) * centered_activation.T.dot(centered_activation)
ActivationCovariance(n, c) ==
    [i \in 1..Cols(c) |->
        [j \in 1..Cols(c) |->
            FMul(InvBatchMinusOne(n),
                 FSum([r \in 1..Rows(c) |-> FMul(c[r][i], c[r][j])]))]]

\* a faulty variant of InvStdVec that divides by minibatch_size, not by
\* minibatch_size - 1; C5 is tested against it
InvStdVecPopulation(n, c) ==
    [j \in 1..Cols(c) |->
        InvSqrt(FMul(Num(1, n),
                     FSum([r \in 1..Rows(c) |-> FMul(c[r][j], c[r][j])])))]

\* (1.0/(minibatch_size-1) * (centered_activation**2).sum(0)) ** (-0.5)
InvStdVec(n, c) ==
    [j \in 1..Cols(c) |->
        InvSqrt(FMul(InvBatchMinusOne(n),
                     FSum([r \in 1..Rows(c) |-> FMul(c[r][j], c[r][j])])))]

\* (inv_std_vec * activation_covariance).T * inv_std_vec: a vector times a
\* matrix scales column j by entry j
ActivationCorrelation(s, cov) ==
    LET scaled == [i \in 1..Len(cov) |->
                    [j \in 1..Len(cov) |-> SurdMul(s[j], ToSurd(cov[i][j]))]]
    IN  [i \in 1..Len(cov) |->
            [j \in 1..Len(cov) |-> SurdMul(scaled[j][i], s[j])]]

\* element-wise squaring of the covariance and of the correlation matrix
CovarianceSquared(cov) ==
    [i \in 1..Len(cov) |-> [j \in 1..Len(cov) |-> FMul(cov[i][j], cov[i][j])]]
CorrelationSquared(cor) ==
    [i \in 1..Len(cor) |-> [j \in 1..Len(cor) |-> SurdSquare(cor[i][j])]]

\* squared.sum() - squared.diagonal().sum()
OffDiagonalSum(M) ==
    FSub(FSum([i \in 1..Len(M) |-> FSum(M[i])]),
         FSum([i \in 1..Len(M) |-> M[i][i]]))

\* the activations of one minibatch of n examples and h hidden units: units
\* 1..h-1 give column a, unit h gives column b
Activations == (0 - 1)..MaxAct
Batch(n, h, a, b) == [r \in 1..n |-> [j \in 1..h |-> IF j = h THEN b[r] ELSE a[r]]]

TrainingIdle ==
    /\ pc = "off"
    /\ cov_reg = 0 /\ cor_reg = 0 /\ L1_reg = 0 /\ L2_reg = 0
    /\ learning_rate = 0 /\ n_epochs = 0 /\ batch_size = 0
    /\ n_train = 0 /\ n_valid = 0
    /\ n_train_batches = 0 /\ n_valid_batches = 0
    /\ attrs = {} /\ cost = <<>> /\ params = <<>>
    /\ epoch = 0 /\ index_perm = <<>> /\ minibatch_index = 0
    /\ validation_losses = <<>>
    /\ this_validation_loss = NaN /\ best_validation_loss = NaN
    /\ best_epoch = 0
    /\ exit_status = <<>> /\ error = "" /\ summary = <<>>
    /\ losses = <<>> /\ used = <<>> /\ validated = <<>>
    /\ updates = 0 /\ last_grad = <<>>

InitPenalty ==
    /\ TrainingIdle
    /\ pen_pc = "input"
    /\ \E n \in 1..MaxRows, h \in 1..MaxHidden :
         \E a \in [1..n -> Activations], b \in [1..n -> Activations] :
            hidden_output = Batch(n, h, a, b)
    /\ minibatch_size = 0
    /\ mean_activation = <<>>
    /\ centered_activation = <<>>
    /\ activation_covariance = <<>>
    /\ covariance_squared = <<>>
    /\ off_diag_cov_sqr = NaN
    /\ inv_std_vec = <<>>
    /\ activation_correlation = <<>>
    /\ correlation_squared = <<>>
    /\ off_diag_cor_sqr = NaN

\* MLP.set_covariance
SetCovariance ==
    /\ pen_pc = "input"
    /\ pen_pc' = "cov"
    /\ minibatch_size' = Rows(hidden_output)
    /\ mean_activation' = MeanActivation(hidden_output)
    /\ centered_activation' = CenteredActivation(hidden_output, mean_activation')
    /\ activation_covariance' =
            ActivationCovariance(minibatch_size', centered_activation')
    /\ covariance_squared' = CovarianceSquared(activation_covariance')
    /\ off_diag_cov_sqr' = OffDiagonalSum(covariance_squared')
    /\ UNCHANGED <<hidden_output, inv_std_vec, activation_correlation,
                   correlation_squared, off_diag_cor_sqr,
                   cfgvars, runvars, loopvars, histvars>>

\* MLP.set_correlation
SetCorrelation ==
    /\ pen_pc = "input"
    /\ pen_pc' = "cor"
    /\ minibatch_size' = Rows(hidden_output)
    /\ mean_activation' = MeanActivation(hidden_output)
    /\ centered_activation' = CenteredActivation(hidden_output, mean_activation')
    /\ activation_covariance' =
            ActivationCovariance(minibatch_size', centered_activation')
    /\ inv_std_vec' = InvStdVec(minibatch_size', centered_activation')
    /\ activation_correlation' =
            ActivationCorrelation(inv_std_vec', activation_covariance')
    /\ correlation_squared' = CorrelationSquared(activation_correlation')
    /\ off_diag_cor_sqr' = OffDiagonalSum(correlation_squared')
    /\ UNCHANGED <<hidden_output, covariance_squared, off_diag_cov_sqr,
                   cfgvars, runvars, loopvars, histvars>>

NextPenalty ==
    \/ SetCovariance
    \/ SetCorrelation

SpecPenalty == InitPenalty /\ [][NextPenalty]_vars

\* ================================================================ claims
BothPenalties == cov_reg # 0 /\ cor_reg # 0
\* a training run has got past the assembly of the cost
Training == pc \in {"loop", "train", "validate", "compare", "done"}

\* C1: with cov_reg and cor_reg both non-zero the run never gets further than
\* the construction of the model: it has a next step until it has ended, it
\* ends aborted with a non-zero exit status, and no epoch is started, no
\* train_model and no validate_model call is made and no summary is printed.
C1_BothPenaltiesAbort ==
    BothPenalties =>
        /\ pc \in {"start", "loaded", "built", "aborted"}
        /\ pc # "aborted" => ENABLED Next
        /\ pc = "aborted" => /\ exit_status # <<>>
                             /\ exit_status[1] # 0
                             /\ error \in {"SystemExit", "ZeroDivisionError"}
        /\ pc # "aborted" => exit_status = <<>>
        /\ epoch = 0
        /\ updates = 0
        /\ used = <<>>
        /\ validated = <<>>
        /\ losses = <<>>
        /\ summary = <<>>

C1_Witness == BothPenalties /\ pc = "aborted" /\ error = "SystemExit"

\* C2: when cov_reg and cor_reg are not both non-zero, the cost of a run is
\* negative_log_likelihood + L1_reg*L1 + L2_reg*L2_sqr followed by the one term
\* the two weights select (none, cov_reg*off_diag_cov_sqr or
\* cor_reg*off_diag_cor_sqr), never both penalties, and neither the cost nor
\* the two weights change once the cost is assembled.
C2_ExpectedCost ==
    << <<1, "negative_log_likelihood">>, <<L1_reg, "L1">>, <<L2_reg, "L2_sqr">> >>
    \o (IF cov_reg = 0 /\ cor_reg = 0 THEN << >>
        ELSE IF cor_reg = 0 THEN << <<cov_reg, "off_diag_cov_sqr">> >>
        ELSE << <<cor_reg, "off_diag_cor_sqr">> >>)

C2_CostOfMode ==
    [][ /\ (Training' /\ ~BothPenalties') =>
            /\ cost' = C2_ExpectedCost'
            /\ ~(\E i, j \in DOMAIN cost' : /\ cost'[i][2] = "off_diag_cov_sqr"
                                            /\ cost'[j][2] = "off_diag_cor_sqr")
        /\ Training => cost' = cost
        /\ cov_reg' = cov_reg
        /\ cor_reg' = cor_reg ]_vars

C2_Witness ==
    /\ pc = "compare"
    /\ updates > 0
    /\ cov_reg = 0
    /\ cor_reg # 0
    /\ cost[Len(cost)] = <<cor_reg, "off_diag_cor_sqr">>

\* C3: the best-model record changes in a step exactly when that step ends an
\* epoch whose validation error is strictly less than the best so far, and then
\* becomes (that error, that epoch); so no completed epoch has an error less
\* than best_validation_loss, best_epoch is the first epoch whose error equals
\* it (0 and +inf while no epoch had a comparable error), and
\* best_validation_loss never increases and is never reset.
C3_RecordOfHistory ==
    /\ \A e \in 1..Len(losses) : ~Lt(losses[e], best_validation_loss)
    /\ IF best_epoch = 0
       THEN best_validation_loss = Inf
       ELSE /\ best_epoch \in 1..Len(losses)
            /\ losses[best_epoch] = best_validation_loss
            /\ IsNumber(best_validation_loss)
            /\ \A e \in 1..(best_epoch - 1) :
                    ~SameNumber(losses[e], best_validation_loss)

C3_BestModelRecord ==
    [][ /\ Training' => C3_RecordOfHistory'
        /\ Training =>
            /\ ~Lt(best_validation_loss, best_validation_loss')
            /\ IF losses' # losses
               THEN LET this == losses'[Len(losses')]
                    IN  IF Lt(this, best_validation_loss)
                        THEN /\ best_validation_loss' = this
                             /\ best_epoch' = epoch
                        ELSE /\ best_validation_loss' = best_validation_loss
                             /\ best_epoch' = best_epoch
               ELSE /\ best_validation_loss' = best_validation_loss
                    /\ best_epoch' = best_epoch ]_vars

\* a tie after an improvement: the record keeps the first epoch of the minimum
C3_Witness ==
    /\ pc = "done"
    /\ Len(losses) = 2
    /\ SameNumber(losses[1], losses[2])
    /\ best_epoch = 1
    /\ best_validation_loss = losses[1]

\* C4: in every epoch index_perm is a bijection onto 0..n_train-1 (length
\* n_train, every index exactly once), drawn in the step that starts the
\* epoch, and every train_model call of the epoch is given that permutation.
C4_IsBijection(perm) ==
    /\ Len(perm) = n_train
    /\ \A k \in 1..Len(perm) : perm[k] \in 0..(n_train - 1)
    /\ \A v \in 0..(n_train - 1) :
            Cardinality({k \in 1..Len(perm) : perm[k] = v}) = 1

C4_EpochPermutation ==
    epoch >= 1 =>
        /\ C4_IsBijection(index_perm)
        /\ \A k \in 1..Len(used) : used[k].perm = index_perm

C4_Witness ==
    /\ pc = "validate"
    /\ epoch = 2
    /\ n_train = 3
    /\ Len(used) = 3
    /\ index_perm = <<2, 0, 1>>

\* C5: set_correlation on a minibatch of more than one example whose columns
\* are all the same and not constant gives a correlation matrix with every
\* entry 1 and off_diag_cor_sqr = n_hidden * (n_hidden - 1).
C5_IdenticalColumns(H) ==
    /\ Rows(H) > 1
    /\ \A r \in 1..Rows(H) : \A j \in 1..Cols(H) : H[r][j] = H[r][1]
    /\ \E r1, r2 \in 1..Rows(H) : H[r1][1] # H[r2][1]

C6_InvalidConfigurationRejected ==
    (batch_size <= 1 \/ n_epochs <= 0) =>
        /\ epoch = 0
        /\ updates = 0
        /\ validated = <<>>
        /\ losses = <<>>
        /\ summary = <<>>
        /\ pc # "done"

\* the validation error never went up from one epoch to the next, and was a
\* number in every epoch
C7_NeverIncreased ==
    /\ \A e \in 1..Len(losses) : IsNumber(losses[e])
    /\ \A e \in 1..(Len(losses) - 1) : ~Lt(losses[e], losses[e + 1])
C7_MinimumAt(e) ==
    /\ e \in 1..Len(losses)
    /\ \A f \in 1..Len(losses) : ~Lt(losses[f], losses[e])

\* C7 as stated: at DONE after a run whose validation error never increased,
\* best_epoch is the last epoch at which the minimum validation error was
\* achieved.
C7_LastEpochOfMinimum ==
    (pc = "done" /\ Len(losses) >= 1 /\ C7_NeverIncreased) =>
        /\ C7_MinimumAt(best_epoch)
        /\ \A e \in (best_epoch + 1)..Len(losses) : ~C7_MinimumAt(e)

\* C7 amended: at DONE after a run whose validation error never increased,
\* best_epoch is the first epoch at which the minimum validation error was
\* achieved.
C7_FirstEpochOfMinimum ==
    (pc = "done" /\ Len(losses) >= 1 /\ C7_NeverIncreased) =>
        /\ C7_MinimumAt(best_epoch)
        /\ \A e \in 1..(best_epoch - 1) : ~C7_MinimumAt(e)
        /\ summary = << [best |-> losses[best_epoch], epoch |-> best_epoch] >>

\* the error went down and then stayed: the minimum is achieved twice
C7_Witness ==
    /\ pc = "done"
    /\ Len(losses) = 2
    /\ C7_NeverIncreased
    /\ SameNumber(losses[1], losses[2])
    /\ n_valid_batches = 2
    /\ best_epoch = 1

\* C8: with batch_size >= 1, the train_model calls of an epoch are those of
\* minibatch_index 0, 1, 2, ... in this order, call k on the examples at the
\* positions k*batch_size .. (k+1)*batch_size - 1 of the permutation; once the
\* epoch's training is over there were floor(n_train / batch_size) of them, no
\* example took part in two, and the examples that took part in none are the
\* n_train mod batch_size last ones of the permutation.
C8_Occurrences(x) ==
    Cardinality({ kj \in (1..Len(used)) \X (1..batch_size) :
                    /\ kj[2] <= Len(used[kj[1]].examples)
                    /\ used[kj[1]].examples[kj[2]] = x })
C8_Unused == { x \in 0..(n_train - 1) : C8_Occurrences(x) = 0 }

C8_MinibatchesOfEpoch ==
    (batch_size >= 1 /\ epoch >= 1) =>
        /\ \A k \in 1..Len(used) :
            /\ used[k].index = k - 1
            /\ Len(used[k].examples) = batch_size
            /\ \A j \in 1..batch_size :
                 used[k].examples[j] = index_perm[(k - 1) * batch_size + j]
        /\ \A x \in 0..(n_train - 1) : C8_Occurrences(x) <= 1
        /\ Len(used) <= n_train \div batch_size
        /\ pc = "train" => Len(used) = minibatch_index
        /\ pc \in {"validate", "compare", "loop", "done"} =>
            /\ Len(used) = n_train \div batch_size
            /\ Cardinality(C8_Unused) = n_train % batch_size
            /\ C8_Unused = { index_perm[p] :
                    p \in (n_train - (n_train % batch_size) + 1)..n_train }

C8_Witness ==
    /\ pc = "validate"
    /\ n_train = 3
    /\ batch_size = 2
    /\ Len(used) = 1
    /\ used[1].examples = <<2, 0>>
    /\ C8_Unused = {1}

\* C9: a run with cov_reg and cor_reg not both non-zero, batch_size >= 1 and
\* n_epochs >= 1 moves start -> ... -> loop -> (train)* -> validate -> compare
\* -> loop -> ... -> done; epoch goes 1, 2, ..., n_epochs; the updates of an
\* epoch all come before its one validation pass, which takes the validation
\* batches 0, 1, ... in the stored order of the data, and after the validation
\* of the epoch before; done is entered only from the loop head with
\* epoch = n_epochs, one validation error per epoch and the record as summary;
\* and the run does reach done.
C9_Valid == ~BothPenalties /\ batch_size >= 1 /\ n_epochs >= 1
C9_BatchCount(n) == IF n > 0 THEN n ELSE 0

C9_Order ==
    /\ epoch \in 0..n_epochs
    /\ pc \in {"start", "loaded", "built", "cost"} => epoch = 0 /\ updates = 0
    /\ pc = "train" => Len(losses) = epoch - 1
    /\ pc \in {"train", "validate"} => updates = (epoch - 1) * n_train_batches + Len(used)
    /\ pc = "validate" =>
            /\ Len(losses) = epoch - 1
            /\ Len(used) = n_train_batches
    /\ pc = "compare" => Len(losses) = epoch - 1
    /\ pc \in {"compare", "loop", "done"} /\ epoch >= 1 =>
            /\ Len(used) = n_train_batches
            /\ updates = epoch * n_train_batches
            /\ Len(validated) = C9_BatchCount(n_valid_batches)
            /\ \A i \in 1..Len(validated) :
                /\ validated[i].index = i - 1
                /\ validated[i].examples =
                        [j \in 1..batch_size |-> (i - 1) * batch_size + j - 1]
    /\ pc \in {"loop", "done"} => Len(losses) = epoch
    /\ pc = "done" =>
            /\ epoch = n_epochs
            /\ summary = << [best |-> best_validation_loss, epoch |-> best_epoch] >>
            /\ exit_status = <<0>>
    /\ pc # "done" => summary = <<>>

C9_Step ==
    /\ epoch' \in {epoch, epoch + 1}
    /\ pc' # pc \/ pc = "train"
    /\ pc = "loop" => /\ pc' \in {"train", "validate", "done"}
                      /\ pc' = "done" <=> epoch = n_epochs
                      /\ pc' # "done" => epoch' = epoch + 1
    /\ pc = "train" => pc' \in {"train", "validate"} /\ updates' = updates + 1
    /\ pc = "validate" => pc' = "compare"
    /\ pc = "compare" => pc' = "loop"
    /\ pc # "loop" => epoch' = epoch
    /\ pc # "train" => updates' = updates

C9_RunOfEpochs ==
    /\ [][C9_Valid => (C9_Order' /\ C9_Step)]_vars
    /\ <>(C9_Valid => pc = "done")

C9_Witness ==
    /\ pc = "done"
    /\ C9_Valid
    /\ n_epochs = 2
    /\ batch_size = 2
    /\ n_train = 3
    /\ n_valid = 2
    /\ updates = 2
    /\ Len(losses) = 2

\* C10: a step changes classifier.params only if it is a train_model call, and
\* that call sets every parameter to param - learning_rate * gparam with all
\* four gradients taken at the parameter values before the call; the
\* validation pass, the permutation draw and the best-model record leave the
\* parameters alone.
C10_OnlyTrainModelWrites ==
    [][ Training =>
          IF updates' = updates + 1
          THEN LET xs == used'[Len(used')].examples
               IN  \A i \in ParamIds :
                     params'[i] =
                        VSub(params[i],
                             VScale(learning_rate, Gparam(cost, i, params, xs)))
          ELSE params' = params ]_vars

C10_Witness ==
    /\ pc = "done"
    /\ epoch = 2
    /\ updates >= 2
    /\ ~AnyNaN(params)
    /\ params[3] # V(0)
    /\ params[2] # V(0)
====
